---- MODULE Spec2Model ----
(***************************************************************************)
(* FunProfileClient (Fun Profile SSO SDK): the token lifecycle and the     *)
(* PKCE authorization flow of the client, as a state machine.              *)
(*                                                                         *)
(* Every public method is an async function.  A call is a logical caller   *)
(* p whose position is proc[p].pc; each action is the code that runs       *)
(* between two suspension points (an await on the token storage, on        *)
(* fetch, or on the PKCE digest).  Any number of calls may be suspended at *)
(* once; the code between two awaits runs atomically (one JS thread).      *)
(***************************************************************************)
EXTENDS Integers, Sequences, FiniteSets, TLC

VARIABLES
  storage,      \* this.storage: the TokenData it holds, or Null
  currentUser,  \* this.currentUser: FunUser or Null
  autoRefresh,  \* this.config.autoRefresh
  now,          \* Date.now(), in ms
  pkce,         \* the verifiers kept by storeCodeVerifier, by state
  issued,       \* the states generateState() has produced so far
  proc,         \* per caller: the call in progress and its locals
  overlap,      \* per caller: the callers whose call was in flight when its own call began
  redeemed,     \* the states with which a handleCallback has reached the token exchange
  syncManager,  \* this.syncManager: created by getSyncManager (TRUE) or still null (FALSE)
  pending,      \* DebouncedSyncManager: the queued data, by category and field
  timers,       \* DebouncedSyncManager: how many debounce timers are armed
  payload,      \* DebouncedSyncManager: the data taken from the queue by the flush in flight
  lastCall,     \* the arguments of the latest queue() call
  writer        \* the sync write in flight (the callback given to DebouncedSyncManager)

vars == <<storage, currentUser, autoRefresh, now, pkce, issued, proc, overlap,
          redeemed, syncManager, pending, timers, payload, lastCall, writer>>

\* the DebouncedSyncManager and what it has in flight
syncVars == <<syncManager, pending, timers, payload, lastCall, writer>>

-----------------------------------------------------------------------------
(* Bounds of the model *)

MaxTicks == 1


\* the logical callers: any two calls may be in flight at once
Procs == {"c1", "c2"}

-----------------------------------------------------------------------------
(* JavaScript values *)

Null == [t |-> "null"]
Undefined == [t |-> "undefined"]
Str(s) == [t |-> "string", s |-> s]
\* a string whose characters matter (a scope list), as a sequence of characters
Chars(c) == [t |-> "string", c |-> c]
Bool(b) == [t |-> "boolean", b |-> b]
Obj(o) == [t |-> "object", o |-> o]

\* ToBoolean: undefined, null, "" and false are falsy; objects are truthy
Truthy(v) ==
  CASE v.t = "string" -> IF "s" \in DOMAIN v THEN v.s # "" ELSE v.c # <<>>
    [] v.t = "boolean" -> v.b
    [] v.t = "object" -> TRUE
    [] OTHER -> FALSE

\* a || b
OrElse(a, b) == IF Truthy(a) THEN a ELSE b

\* how an async call ends
Return(v) == [kind |-> "return", val |-> v]
Throw(e) == [kind |-> "throw", err |-> e]
NoResult == [kind |-> "none"]

\* String.prototype.split(' ') on a string given as a sequence of characters
RECURSIVE SplitFrom(_, _, _)
SplitFrom(s, i, cur) ==
  IF i > Len(s) THEN <<cur>>
  ELSE IF s[i] = " " THEN <<cur>> \o SplitFrom(s, i + 1, <<>>)
  ELSE SplitFrom(s, i + 1, Append(cur, s[i]))

Split(s) == SplitFrom(s, 1, <<>>)

-----------------------------------------------------------------------------
(* constants.ts: the lead time before expiry at which a token counts as stale *)

TOKEN_REFRESH_BUFFER == 60000

-----------------------------------------------------------------------------
(* What the identity provider and the network may answer *)

AccessTokens == {"a1", "a2"}
ExpiresIn == {120}
ScopeP == <<"p">>
ScopePE == <<"p", " ", "e">>
WireUsers == {[id |-> "u1", fun_id |-> "f1"]}

\* a fetch that rejects (no response), or a response with a status and a body
Reject == [kind |-> "reject"]
Response(status, body) == [kind |-> "response", status |-> status, body |-> body]

ErrorStatuses == {401}
Failures == {Reject} \cup {Response(st, Undefined) : st \in ErrorStatuses}

\* answers of the token endpoint to grant_type=refresh_token
RefreshBodies ==
  [access_token : {Str(a) : a \in AccessTokens},
   refresh_token : {Undefined, Str(""), Str("r2")},
   expires_in : ExpiresIn,
   scope : {Undefined}]

RefreshFetches == Failures \cup {Response(200, Obj(b)) : b \in RefreshBodies}

\* the same, for the flows in which the refresh is only a step on the way
FewRefreshFetches ==
  Failures \cup {Response(200, Obj(b)) :
                   b \in {c \in RefreshBodies : c.access_token = Str("a2")
                                                /\ c.refresh_token = Undefined}}

\* answers of the token endpoint to grant_type=authorization_code
TokenBodies ==
  [access_token : {Str(a) : a \in AccessTokens},
   refresh_token : {Str("r1")},
   expires_in : ExpiresIn,
   scope : {Chars(ScopePE)},
   user : {Undefined} \cup {Obj(u) : u \in WireUsers},
   is_new_user : {Undefined}]

TokenFetches == Failures \cup {Response(200, Obj(b)) : b \in TokenBodies}

\* answers of the register endpoint
RegisterFetches ==
  Failures \cup {Response(200, Obj(b)) :
                   b \in {c \in TokenBodies : c.access_token = Str("a1") /\ c.user # Undefined}}

\* answers that fail, with their headers and their body: the status, the
\* content type, the body as response.json() gives it (Undefined: it does not
\* parse) and the Retry-After header
ErrorResponse(status, contentType, body, retryAfter) ==
  [kind |-> "response", status |-> status, body |-> body,
   headers |-> [n \in (IF contentType = Null THEN {} ELSE {"content-type"})
                        \cup (IF retryAfter = Null THEN {} ELSE {"Retry-After"}) |->
                  IF n = "content-type" THEN contentType ELSE retryAfter]]

ContentTypes == {Null, Str("application/json"), Str("text/html")}
ErrorBodies == {Undefined, Null, Obj([error |-> Str("quota_exceeded")]),
                Obj([error_description |-> Str("busy")])}
RetryAfters == {Null, Chars(<<"3", "0">>), Chars(<<>>), Chars(<<" ", "7">>),
                Chars(<<"W", "e", "d", ",", " ", "2", "1">>)}

ErrorFetches ==
  {Reject}
    \cup {ErrorResponse(st, ct, b, Null) :
            st \in {400, 401, 500}, ct \in ContentTypes, b \in ErrorBodies}
    \cup {ErrorResponse(429, Str("application/json"), b, ra) :
            b \in {Undefined, Null}, ra \in RetryAfters}
    \cup {Response(200, Undefined)}

\* answers of the verify endpoint
VerifyFetches ==
  Failures \cup {Response(200, Obj([user |-> u])) : u \in {Undefined} \cup {Obj(w) : w \in WireUsers}}

\* answers of the sync and of the revoke endpoint
SyncFetches == Failures \cup {Response(200, Obj([success |-> Bool(TRUE)]))}
RevokeFetches == Failures \cup {Response(200, Obj([success |-> Bool(TRUE)]))}

\* a record the storage adapter may hold from an earlier page load
PersistedTokens ==
  [accessToken |-> Str("a1"), refreshToken |-> Str("r1"),
   expiresAt |-> 2 * TOKEN_REFRESH_BUFFER, scope |-> <<ScopeP>>]

-----------------------------------------------------------------------------
(* FunProfileClient: private helpers *)

\* response.headers.get(name): null when the header is absent
header(f, name) ==
  IF "headers" \in DOMAIN f /\ name \in DOMAIN f.headers THEN f.headers[name] ELSE Null

\* contentType?.includes('application/json')
JsonTypes == {"application/json", "application/json; charset=utf-8"}
includesJson(contentType) == contentType.t = "string" /\ contentType.s \in JsonTypes

\* o.name for an object o: undefined when o has no such property
field(o, name) == IF name \in DOMAIN o.o THEN o.o[name] ELSE Undefined

\* numbers, where NaN may turn up
Num(n) == [t |-> "number", n |-> n]
NaN == [t |-> "NaN"]

DigitOf(c) ==
  CASE c = "0" -> 0 [] c = "1" -> 1 [] c = "2" -> 2 [] c = "3" -> 3 [] c = "4" -> 4
    [] c = "5" -> 5 [] c = "6" -> 6 [] c = "7" -> 7 [] c = "8" -> 8 [] c = "9" -> 9
    [] OTHER -> -1

\* parseInt(s, 10) on a string given as a sequence of characters: leading
\* blanks and a sign are skipped, the digits that follow are read, and NaN is
\* the answer when there is none
RECURSIVE parseDigits(_, _, _)
parseDigits(s, i, acc) ==
  IF i > Len(s) \/ DigitOf(s[i]) < 0 THEN acc
  ELSE parseDigits(s, i + 1, acc * 10 + DigitOf(s[i]))

RECURSIVE skipBlanks(_, _)
skipBlanks(s, i) == IF i <= Len(s) /\ s[i] = " " THEN skipBlanks(s, i + 1) ELSE i

parseInt(s) ==
  LET b == skipBlanks(s, 1)
      i == IF b <= Len(s) /\ s[b] \in {"+", "-"} THEN b + 1 ELSE b
  IN IF i > Len(s) \/ DigitOf(s[i]) < 0 THEN NaN
     ELSE Num((IF b <= Len(s) /\ s[b] = "-" THEN -1 ELSE 1) * parseDigits(s, i, 0))

\* handleError: the body is parsed if the response says it is JSON (a body that
\* does not parse is ignored); reading a property of a body that is the JSON
\* value null is a TypeError; otherwise the typed error of the status
handleError(f) ==
  LET json == includesJson(header(f, "content-type")) /\ f.body # Undefined
      errorData == IF json THEN f.body ELSE Obj([x \in {} |-> Undefined])
  IN CASE f.status = 429 ->
            [kind |-> "throw", err |-> "RateLimitError",
             retryAfter |-> parseInt(OrElse(header(f, "Retry-After"),
                                            Chars(<<"6", "0">>)).c)]
       [] errorData = Null -> Throw("TypeError")
       [] f.status = 401 -> Throw("InvalidTokenError")
       [] f.status = 400 -> Throw("ValidationError")
       [] OTHER ->
            [kind |-> "throw", err |-> "FunProfileError",
             code |-> OrElse(field(errorData, "error"), Str("unknown_error"))]

\* error instanceof FunProfileError: the base class of the SDK's errors
FunProfileErrors ==
  {"FunProfileError", "TokenExpiredError", "InvalidTokenError", "RateLimitError",
   "ValidationError", "NetworkError"}

\* request: the parsed body, or the typed error; what is thrown inside the try
\* and is not one of the SDK's errors becomes a NetworkError
request(f) ==
  IF f.kind = "reject" THEN Throw("NetworkError")
  ELSE IF ~(f.status >= 200 /\ f.status <= 299) THEN
    IF handleError(f).err \in FunProfileErrors THEN handleError(f) ELSE Throw("NetworkError")
  ELSE IF f.body = Undefined THEN Throw("NetworkError")
  ELSE Return(f.body)

transformUser(data) == [id |-> data.id, funId |-> data.fun_id]

\* Date.now() >= tokens.expiresAt - TOKEN_REFRESH_BUFFER
IsStale_Inverted(tokens, t) == t <= tokens.expiresAt - TOKEN_REFRESH_BUFFER
IsStale(tokens, t) == t >= tokens.expiresAt - TOKEN_REFRESH_BUFFER

\* refreshTokens: the record built from a refresh response
newTokens_NoFallback(response, tokens, t) ==
  [accessToken |-> response.access_token,
   refreshToken |-> response.refresh_token,
   expiresAt |-> t + response.expires_in * 1000,
   scope |-> IF response.scope.t = "string" THEN Split(response.scope.c) ELSE tokens.scope]
newTokens(response, tokens, t) ==
  [accessToken |-> response.access_token,
   refreshToken |-> OrElse(response.refresh_token, tokens.refreshToken),
   expiresAt |-> t + response.expires_in * 1000,
   scope |-> IF response.scope.t = "string" THEN Split(response.scope.c) ELSE tokens.scope]

\* Array.prototype.join(' ')
RECURSIVE Join(_)
Join(parts) ==
  IF Len(parts) = 0 THEN <<>>
  ELSE IF Len(parts) = 1 THEN parts[1]
  ELSE parts[1] \o <<" ">> \o Join(Tail(parts))

\* handleTokenResponse: the record built from a token response
exchangedTokens_Duration(response, t) ==
  [accessToken |-> response.access_token,
   refreshToken |-> response.refresh_token,
   expiresAt |-> response.expires_in * 1000,
   scope |-> Split(OrElse(response.scope, Chars(<<>>)).c)]
exchangedTokens(response, t) ==
  [accessToken |-> response.access_token,
   refreshToken |-> response.refresh_token,
   expiresAt |-> t + response.expires_in * 1000,
   scope |-> Split(OrElse(response.scope, Chars(<<>>)).c)]

transformAuthResult(response, tokens, user, t) ==
  [accessToken |-> tokens.accessToken,
   refreshToken |-> tokens.refreshToken,
   expiresIn |-> (tokens.expiresAt - t) \div 1000,
   scope |-> Join(tokens.scope),
   user |-> user,
   isNewUser |-> response.is_new_user]

-----------------------------------------------------------------------------
(* pkce.ts *)

States == {"s1", "s2"}
Verifiers == {"v1", "v2"}
Codes == {"code"}

\* generateCodeChallenge: the S256 transform of the verifier
generateCodeChallenge(codeVerifier) == <<"S256", codeVerifier>>

\* storeCodeVerifier(codeVerifier, state)
storeCodeVerifier(store, codeVerifier, state) ==
  [s \in DOMAIN store \cup {state} |-> IF s = state THEN codeVerifier ELSE store[s]]

\* retrieveCodeVerifier(state): the verifier kept for state, or null
retrieveCodeVerifier(store, state) ==
  IF state \in DOMAIN store THEN Str(store[state]) ELSE Null

\* the verifiers left once retrieveCodeVerifier(state) has resolved state
consumeCodeVerifier_Keeps(store, state) == store
consumeCodeVerifier(store, state) ==
  [s \in DOMAIN store \ {state} |-> store[s]]

-----------------------------------------------------------------------------
(* sync-manager.ts: the data of the queue *)

\* an object without fields; the empty queue
NoData == [f \in {} |-> 0]

Categories == {"stats", "farm"}
Fields == {"gold", "wood"}
Values == [gold |-> {100, 150}, wood |-> {5}]

\* the partial data objects a queue() call may carry
Objects ==
  UNION {{o \in [D -> {5, 100, 150}] : \A f \in D : o[f] \in Values[f]} :
           D \in SUBSET Fields \ {{}}}

\* { ...old, ...data }
merge_FirstWins(old, data) ==
  [f \in DOMAIN old \cup DOMAIN data |-> IF f \in DOMAIN old THEN old[f] ELSE data[f]]
merge(old, data) ==
  [f \in DOMAIN old \cup DOMAIN data |-> IF f \in DOMAIN data THEN data[f] ELSE old[f]]

\* the entry of category c in the queue q, or an empty object
entry(q, c) == IF c \in DOMAIN q THEN q[c] ELSE NoData

\* queue(category, data): data is merged into the pending entry of its category
queue_pending(pend, category, data) ==
  [c \in DOMAIN pend \cup {category} |->
     IF c = category THEN merge(entry(pend, c), data) ELSE pend[c]]

\* queue(category, data): the armed timer, if any, is cancelled and one is armed
queue_timers_KeepsOld(tm) == IF tm < 2 THEN tm + 1 ELSE tm
queue_timers(tm) == 1

hasPendingData(pend) == pend # NoData

\* flush(): join the flush in flight, or nothing to do, or a new write
flush_mode_NoJoin(busy, pend) ==
  IF pend = NoData THEN "nothing" ELSE "write"
flush_mode(busy, pend) ==
  IF busy THEN "join"
  ELSE IF pend = NoData THEN "nothing"
  ELSE "write"

\* the data of a failed write goes back under what has been queued since
restored(sent, pend) ==
  [c \in DOMAIN sent \cup DOMAIN pend |-> merge(entry(sent, c), entry(pend, c))]

\* the queue once the write of `sent` has settled with o
flush_pending_ClearsQueue(sent, pend, o) ==
  IF o.kind = "throw" THEN restored(sent, pend) ELSE NoData
flush_pending(sent, pend, o) ==
  IF o.kind = "throw" THEN restored(sent, pend) ELSE pend

\* what flush() answers once the write has settled with o
flush_result(o) == IF o.kind = "throw" THEN o ELSE Return(Str("synced"))

-----------------------------------------------------------------------------
(* Callers *)

Resting ==
  [op |-> "none", pc |-> "done", branch |-> "", tokens |-> Null, rtokens |-> Null,
   state |-> "", verifier |-> "", resp |-> Undefined, result |-> NoResult, sent |-> 0,
   flush |-> "", revoke |-> "", bearer |-> ""]

InFlight(q) == proc[q].pc # "done"

\* a sync write is in flight
InFlight_writer == writer.pc # "done"

\* a caller begins a call of method m, up to its first await
Begin(m, at) == [Resting EXCEPT !.op = m, !.pc = at]

\* the calls that the new call of p overlaps; the others forget p's finished call
BeginOverlap(p) ==
  [q \in Procs |-> IF q = p THEN {r \in Procs \ {p} : InFlight(r)}
                   ELSE IF InFlight(q) THEN overlap[q] ELSE overlap[q] \ {p}]

\* the current (or last) calls of p and q were in flight at the same time
Concurrent(p, q) == p # q /\ (p \in overlap[q] \/ q \in overlap[p])

Isolated(p) == \A q \in Procs \ {p} : ~Concurrent(p, q)

\* the call settles with o; the locals of its inner frames are gone
Done(r, o) ==
  [r EXCEPT !.pc = "done", !.result = o, !.rtokens = Null, !.resp = Undefined,
            !.bearer = ""]

-----------------------------------------------------------------------------
(* How a settled inner call continues in its caller *)

\* getAccessToken, once refreshTokens() has settled with o
getAccessToken_refreshed(r, o) ==
  Done(r, IF o.kind = "throw" THEN o ELSE Return(o.val.o.accessToken))

\* isAuthenticated, once refreshTokens() has settled with o: try / catch
isAuthenticated_Propagates(r, o) ==
  Done(r, IF o.kind = "throw" THEN o ELSE Return(Bool(TRUE)))
isAuthenticated_refreshed(r, o) ==
  Done(r, IF o.kind = "throw" THEN Return(Bool(FALSE)) ELSE Return(Bool(TRUE)))

\* refreshTokens settles with o, in the frame that called it
refreshTokens_Retries(r, o) ==
  IF o.kind = "throw" /\ r.rtokens # Null /\ r.sent < 2
    THEN [r EXCEPT !.pc = "rt_fetch", !.sent = r.sent + 1, !.resp = Undefined]
  ELSE CASE r.op = "refreshTokens" -> Done(r, o)
         [] r.op = "isAuthenticated" -> isAuthenticated_refreshed(r, o)
         [] OTHER -> getAccessToken_refreshed(r, o)
refreshTokens_settle(r, o) ==
  CASE r.op = "refreshTokens" -> Done(r, o)
    [] r.op = "isAuthenticated" -> isAuthenticated_refreshed(r, o)
    [] OTHER -> getAccessToken_refreshed(r, o)

\* refreshTokens() is called: storage.getTokens() is read, then awaited
refreshTokens_enter(r, store) == [r EXCEPT !.pc = "rt_tokens", !.rtokens = store]

-----------------------------------------------------------------------------
(* The code after `await this.storage.getTokens()` *)

getAccessToken_ReturnsStale(r, store, t, auto) ==
  IF r.tokens = Null THEN Done([r EXCEPT !.branch = "none"], Return(Null))
  ELSE IF IsStale(r.tokens, t) THEN
    IF auto THEN refreshTokens_enter([r EXCEPT !.branch = "stale"], store)
    ELSE Done([r EXCEPT !.branch = "stale"], Return(r.tokens.accessToken))
  ELSE Done([r EXCEPT !.branch = "fresh"], Return(r.tokens.accessToken))
getAccessToken_ThrowsOnNone(r, store, t, auto) ==
  IF r.tokens = Null THEN Done([r EXCEPT !.branch = "none"], Throw("InvalidTokenError"))
  ELSE IF IsStale(r.tokens, t) THEN
    IF auto THEN refreshTokens_enter([r EXCEPT !.branch = "stale"], store)
    ELSE Done([r EXCEPT !.branch = "stale"], Throw("TokenExpiredError"))
  ELSE Done([r EXCEPT !.branch = "fresh"], Return(r.tokens.accessToken))
getAccessToken_body(r, store, t, auto) ==
  IF r.tokens = Null THEN Done([r EXCEPT !.branch = "none"], Return(Null))
  ELSE IF IsStale(r.tokens, t) THEN
    IF auto THEN refreshTokens_enter([r EXCEPT !.branch = "stale"], store)
    ELSE Done([r EXCEPT !.branch = "stale"], Throw("TokenExpiredError"))
  ELSE Done([r EXCEPT !.branch = "fresh"], Return(r.tokens.accessToken))

isAuthenticated_FallsThrough(r, store, t, auto) ==
  IF r.tokens = Null THEN Done([r EXCEPT !.branch = "none"], Return(Bool(FALSE)))
  ELSE IF IsStale(r.tokens, t) /\ auto THEN
    refreshTokens_enter([r EXCEPT !.branch = "stale"], store)
  ELSE Done([r EXCEPT !.branch = IF IsStale(r.tokens, t) THEN "stale" ELSE "fresh"],
            Return(Bool(TRUE)))
isAuthenticated_body(r, store, t, auto) ==
  IF r.tokens = Null THEN Done([r EXCEPT !.branch = "none"], Return(Bool(FALSE)))
  ELSE IF IsStale(r.tokens, t) THEN
    IF auto THEN refreshTokens_enter([r EXCEPT !.branch = "stale"], store)
    ELSE Done([r EXCEPT !.branch = "stale"], Return(Bool(FALSE)))
  ELSE Done([r EXCEPT !.branch = "fresh"], Return(Bool(TRUE)))

\* refreshTokens after its await: no tokens, or the refresh request is sent
refreshTokens_body(r) ==
  IF r.rtokens = Null THEN refreshTokens_settle(r, Throw("InvalidTokenError"))
  ELSE [r EXCEPT !.pc = "rt_fetch", !.sent = r.sent + 1]

\* what refreshTokens leaves in the storage once its request has settled with o
refreshTokens_ClearsOnFailure(store, o, tokens, t) ==
  IF o.kind = "throw" THEN Null ELSE newTokens(o.val.o, tokens, t)
refreshTokens_stored(store, o, tokens, t) ==
  IF o.kind = "throw" THEN store ELSE newTokens(o.val.o, tokens, t)

\* handleCallback once retrieveCodeVerifier(state) has answered codeVerifier
handleCallback_NoStateCheck(r, codeVerifier) ==
  [r EXCEPT !.pc = "hc_fetch", !.sent = r.sent + 1,
            !.verifier = IF Truthy(codeVerifier) THEN codeVerifier.s ELSE ""]
handleCallback_body(r, codeVerifier) ==
  IF ~Truthy(codeVerifier) THEN Done(r, Throw("ValidationError"))
  ELSE [r EXCEPT !.pc = "hc_fetch", !.sent = r.sent + 1, !.verifier = codeVerifier.s]

\* authenticatedRequest once getAccessToken() has settled in r: its error is
\* thrown on, no token is "Not authenticated", otherwise the request is sent
\* with the header Authorization: Bearer <token>
authenticatedRequest_SkipsUnauthenticated(r) ==
  IF r.pc # "done" \/ r.result.kind = "throw" THEN r
  ELSE IF ~Truthy(r.result.val) THEN Done(r, Return(Undefined))
  ELSE [r EXCEPT !.pc = "sd_fetch", !.result = NoResult, !.bearer = r.result.val.s]
authenticatedRequest_StoredToken(r) ==
  IF r.pc # "done" \/ r.result.kind = "throw" THEN r
  ELSE IF ~Truthy(r.result.val) THEN Done(r, Throw("InvalidTokenError"))
  ELSE [r EXCEPT !.pc = "sd_fetch", !.result = NoResult, !.bearer = r.tokens.accessToken.s]
authenticatedRequest_body(r) ==
  IF r.pc # "done" \/ r.result.kind = "throw" THEN r
  ELSE IF ~Truthy(r.result.val) THEN Done(r, Throw("InvalidTokenError"))
  ELSE [r EXCEPT !.pc = "sd_fetch", !.result = NoResult, !.bearer = r.result.val.s]

\* the methods that send their request through authenticatedRequest
Authenticated == {"getUser", "syncData"}

\* getAccessToken() has settled in r, or not yet: what its caller does next
getAccessToken_settled(r) ==
  IF r.op \in Authenticated THEN authenticatedRequest_body(r) ELSE r

\* a caller that awaits flush() goes on once the flush has answered o:
\* logout ignores a failure and calls storage.getTokens()
flush_resumed_Propagates(r, o, store) ==
  IF r.op = "logout" /\ o.kind # "throw"
    THEN [r EXCEPT !.pc = "lo_tokens", !.flush = o.kind, !.tokens = store]
  ELSE Done(r, o)
flush_resumed(r, o, store) ==
  IF r.op = "logout" THEN [r EXCEPT !.pc = "lo_tokens", !.flush = o.kind, !.tokens = store]
  ELSE Done(r, o)

\* logout after `await this.storage.getTokens()`: the revoke request is sent,
\* with the access token as its `token`, if there are tokens, otherwise
\* storage.clearTokens() is called
logout_body_SkipsRevoke(r) == [r EXCEPT !.pc = "lo_clear"]
logout_body(r) ==
  IF r.tokens # Null THEN [r EXCEPT !.pc = "lo_fetch", !.bearer = r.tokens.accessToken.s]
  ELSE [r EXCEPT !.pc = "lo_clear"]

\* logout once the revoke request has settled with o: try / catch
logout_revoked(r, o) == [r EXCEPT !.pc = "lo_clear", !.revoke = o.kind]

-----------------------------------------------------------------------------
(* Actions *)

Set(p, r) == proc' = [proc EXCEPT ![p] = r]

\* caller p, at rest, begins a call that runs to r
Call(p, r) ==
  /\ proc[p].pc = "done"
  /\ Set(p, r)
  /\ overlap' = BeginOverlap(p)

\* fetch settles: the response (or the rejection) of the request in flight arrives
fetch_settle(p, at, to, fetches) ==
  /\ proc[p].pc = at
  /\ \E f \in fetches : Set(p, [proc[p] EXCEPT !.pc = to, !.resp = f])
  /\ UNCHANGED <<storage, currentUser, autoRefresh, now, pkce, issued, overlap>>
  /\ UNCHANGED <<redeemed, syncVars>>

\* getAccessToken(): storage.getTokens() is called
getAccessToken_call(p) ==
  /\ Call(p, [Begin("getAccessToken", "ga_tokens") EXCEPT !.tokens = storage])
  /\ UNCHANGED <<storage, currentUser, autoRefresh, now, pkce, issued>>
  /\ UNCHANGED <<redeemed, syncVars>>

getAccessToken_resume_ClearsExpired(p) ==
  /\ proc[p].pc = "ga_tokens"
  /\ Set(p, getAccessToken_settled(getAccessToken_body(proc[p], storage, now, autoRefresh)))
  /\ storage' = IF proc'[p].result = Throw("TokenExpiredError") THEN Null ELSE storage
  /\ UNCHANGED <<currentUser, autoRefresh, now, pkce, issued, overlap>>
  /\ UNCHANGED <<redeemed, syncVars>>
getAccessToken_resume(p) ==
  /\ proc[p].pc = "ga_tokens"
  /\ Set(p, getAccessToken_settled(getAccessToken_body(proc[p], storage, now, autoRefresh)))
  /\ UNCHANGED <<storage, currentUser, autoRefresh, now, pkce, issued, overlap>>
  /\ UNCHANGED <<redeemed, syncVars>>

\* isAuthenticated(): storage.getTokens() is called
isAuthenticated_call(p) ==
  /\ Call(p, [Begin("isAuthenticated", "ia_tokens") EXCEPT !.tokens = storage])
  /\ UNCHANGED <<storage, currentUser, autoRefresh, now, pkce, issued>>
  /\ UNCHANGED <<redeemed, syncVars>>

isAuthenticated_resume(p) ==
  /\ proc[p].pc = "ia_tokens"
  /\ Set(p, isAuthenticated_body(proc[p], storage, now, autoRefresh))
  /\ UNCHANGED <<storage, currentUser, autoRefresh, now, pkce, issued, overlap>>
  /\ UNCHANGED <<redeemed, syncVars>>

\* refreshTokens(), called by the application
refreshTokens_call(p) ==
  /\ Call(p, refreshTokens_enter(Begin("refreshTokens", "rt_tokens"), storage))
  /\ UNCHANGED <<storage, currentUser, autoRefresh, now, pkce, issued>>
  /\ UNCHANGED <<redeemed, syncVars>>

refreshTokens_resume(p) ==
  /\ proc[p].pc = "rt_tokens"
  /\ Set(p, getAccessToken_settled(refreshTokens_body(proc[p])))
  /\ UNCHANGED <<storage, currentUser, autoRefresh, now, pkce, issued, overlap>>
  /\ UNCHANGED <<redeemed, syncVars>>

refreshTokens_fetch(p) == fetch_settle(p, "rt_fetch", "rt_response", RefreshFetches)

\* refreshTokens after `await this.request(...)`: the new record is stored and
\* returned, or the error of the request is thrown
refreshTokens_response(p) ==
  /\ proc[p].pc = "rt_response"
  /\ LET o == request(proc[p].resp) IN
       /\ storage' = refreshTokens_stored(storage, o, proc[p].rtokens, now)
       /\ Set(p, getAccessToken_settled(refreshTokens_settle(proc[p],
              IF o.kind = "throw" THEN o ELSE Return(Obj(storage')))))
  /\ UNCHANGED <<currentUser, autoRefresh, now, pkce, issued, overlap>>
  /\ UNCHANGED <<redeemed, syncVars>>

\* startAuth(): state and verifier are generated, the challenge is awaited
startAuth_call(p) ==
  /\ \E s \in States \ issued, v \in Verifiers :
       /\ Call(p, [Begin("startAuth", "sa_challenge") EXCEPT !.state = s, !.verifier = v])
       /\ issued' = issued \cup {s}
  /\ UNCHANGED <<storage, currentUser, autoRefresh, now, pkce>>
  /\ UNCHANGED <<redeemed, syncVars>>

\* startAuth after `await generateCodeChallenge(...)`: the verifier is stored and
\* the authorization URL (its state and challenge) returned
startAuth_resume(p) ==
  /\ proc[p].pc = "sa_challenge"
  /\ pkce' = storeCodeVerifier(pkce, proc[p].verifier, proc[p].state)
  /\ Set(p, Done(proc[p], Return(Obj([state |-> proc[p].state,
              code_challenge |-> generateCodeChallenge(proc[p].verifier)]))))
  /\ UNCHANGED <<storage, currentUser, autoRefresh, now, issued, overlap>>
  /\ UNCHANGED <<redeemed, syncVars>>

\* handleCallback(code, state): the verifier is resolved; the code is exchanged
handleCallback_call(p) ==
  /\ \E code \in Codes, s \in States :
       /\ Call(p, handleCallback_body([Begin("handleCallback", "hc_call") EXCEPT !.state = s],
                                      retrieveCodeVerifier(pkce, s)))
       /\ pkce' = consumeCodeVerifier(pkce, s)
       /\ redeemed' = IF proc'[p].sent = 1 THEN redeemed \cup {s} ELSE redeemed
  /\ UNCHANGED <<storage, currentUser, autoRefresh, now, issued>>
  /\ UNCHANGED syncVars

handleCallback_fetch(p) == fetch_settle(p, "hc_fetch", "hc_response", TokenFetches)

\* handleCallback after `await this.request(...)`: handleTokenResponse stores the
\* record, or the error of the request is thrown
handleCallback_response(p) ==
  /\ proc[p].pc = "hc_response"
  /\ LET o == request(proc[p].resp) IN
       IF o.kind = "throw" THEN
         /\ Set(p, Done(proc[p], o))
         /\ UNCHANGED storage
       ELSE
         /\ storage' = exchangedTokens(o.val.o, now)
         /\ Set(p, [proc[p] EXCEPT !.pc = "ht_set", !.tokens = storage'])
  /\ UNCHANGED <<currentUser, autoRefresh, now, pkce, issued, overlap>>
  /\ UNCHANGED <<redeemed, syncVars>>

\* handleTokenResponse after `await this.storage.setTokens(tokens)`
handleTokenResponse_resume(p) ==
  /\ proc[p].pc = "ht_set"
  /\ LET response == proc[p].resp.body.o IN
       /\ currentUser' = IF Truthy(response.user) THEN Obj(transformUser(response.user.o))
                         ELSE currentUser
       /\ Set(p, Done(proc[p], Return(Obj(
              transformAuthResult(response, proc[p].tokens, currentUser', now)))))
  /\ UNCHANGED <<storage, autoRefresh, now, pkce, issued, overlap>>
  /\ UNCHANGED <<redeemed, syncVars>>

\* register(options): the request is sent; its answer goes to handleTokenResponse
register_call(p) ==
  /\ Call(p, Begin("register", "rg_fetch"))
  /\ UNCHANGED <<storage, currentUser, autoRefresh, now, pkce, issued>>
  /\ UNCHANGED <<redeemed, syncVars>>

register_fetch(p) == fetch_settle(p, "rg_fetch", "hc_response", RegisterFetches)

\* getTokens(): storage.getTokens() is called, and its answer returned
getTokens_call(p) ==
  /\ Call(p, [Begin("getTokens", "gt_tokens") EXCEPT !.tokens = storage])
  /\ UNCHANGED <<storage, currentUser, autoRefresh, now, pkce, issued>>
  /\ UNCHANGED <<redeemed, syncVars>>

getTokens_resume(p) ==
  /\ proc[p].pc = "gt_tokens"
  /\ Set(p, Done(proc[p], Return(IF proc[p].tokens = Null THEN Null ELSE Obj(proc[p].tokens))))
  /\ UNCHANGED <<storage, currentUser, autoRefresh, now, pkce, issued, overlap>>
  /\ UNCHANGED <<redeemed, syncVars>>

\* getCachedUser(): no await
getCachedUser(p) ==
  /\ Call(p, Done(Begin("getCachedUser", "done"), Return(currentUser)))
  /\ UNCHANGED <<storage, currentUser, autoRefresh, now, pkce, issued>>
  /\ UNCHANGED <<redeemed, syncVars>>

\* getUser() and syncData(options): authenticatedRequest calls getAccessToken,
\* which calls storage.getTokens()
getUser_call(p) ==
  /\ Call(p, [Begin("getUser", "ga_tokens") EXCEPT !.tokens = storage])
  /\ UNCHANGED <<storage, currentUser, autoRefresh, now, pkce, issued>>
  /\ UNCHANGED <<redeemed, syncVars>>

syncData_call(p) ==
  /\ Call(p, [Begin("syncData", "ga_tokens") EXCEPT !.tokens = storage])
  /\ UNCHANGED <<storage, currentUser, autoRefresh, now, pkce, issued>>
  /\ UNCHANGED <<redeemed, syncVars>>

\* the answer to the request of authenticatedRequest arrives
authenticatedRequest_fetch(p) ==
  /\ proc[p].op \in Authenticated
  /\ fetch_settle(p, "sd_fetch", "sd_response",
                  IF proc[p].op = "getUser" THEN VerifyFetches ELSE SyncFetches)

\* getUser after `await this.authenticatedRequest(...)`: the profile is cached
\* and returned; transformUser(undefined) is a TypeError
getUser_response(p) ==
  /\ proc[p].pc = "sd_response" /\ proc[p].op = "getUser"
  /\ LET o == request(proc[p].resp) IN
       IF o.kind = "throw" \/ ~Truthy(o.val.o.user) THEN
         /\ Set(p, Done(proc[p], IF o.kind = "throw" THEN o ELSE Throw("TypeError")))
         /\ UNCHANGED currentUser
       ELSE
         /\ currentUser' = Obj(transformUser(o.val.o.user.o))
         /\ Set(p, Done(proc[p], Return(currentUser')))
  /\ UNCHANGED <<storage, autoRefresh, now, pkce, issued, overlap>>
  /\ UNCHANGED <<redeemed, syncVars>>

\* syncData after `await this.authenticatedRequest(...)`: the SyncResult
syncData_response(p) ==
  /\ proc[p].pc = "sd_response" /\ proc[p].op = "syncData"
  /\ LET o == request(proc[p].resp) IN
       Set(p, Done(proc[p], IF o.kind = "throw" THEN o
                            ELSE Return(Obj([success |-> o.val.o.success]))))
  /\ UNCHANGED <<storage, currentUser, autoRefresh, now, pkce, issued, overlap>>
  /\ UNCHANGED <<redeemed, syncVars>>

\* getSyncManager(): the DebouncedSyncManager is created on the first call
getSyncManager ==
  /\ ~syncManager
  /\ syncManager' = TRUE
  /\ UNCHANGED <<storage, currentUser, autoRefresh, now, pkce, issued, proc, overlap>>
  /\ UNCHANGED <<redeemed, pending, timers, payload, lastCall, writer>>

\* syncManager.queue(category, data)
queue(category, data) ==
  /\ syncManager
  /\ pending' = queue_pending(pending, category, data)
  /\ timers' = queue_timers(timers)
  /\ lastCall' = <<category, data>>
  /\ UNCHANGED <<storage, currentUser, autoRefresh, now, pkce, issued, proc, overlap>>
  /\ UNCHANGED <<redeemed, syncManager, payload, writer>>

\* flush() does what mode says, tm being the timers still armed: a new write
\* takes the queue and calls the callback of getSyncManager, which calls
\* syncData, authenticatedRequest, getAccessToken and storage.getTokens()
flush_starts(mode, tm) ==
  IF mode = "write" THEN
    /\ payload' = pending
    /\ pending' = NoData
    /\ timers' = 0
    /\ writer' = [Begin("syncData", "ga_tokens") EXCEPT !.tokens = storage]
  ELSE
    /\ timers' = tm
    /\ UNCHANGED <<payload, pending, writer>>

\* an armed debounce timer fires: flush()
timer_fires ==
  /\ timers > 0
  /\ flush_starts(flush_mode(InFlight_writer, pending), timers - 1)
  /\ UNCHANGED <<storage, currentUser, autoRefresh, now, pkce, issued, proc, overlap>>
  /\ UNCHANGED <<redeemed, syncManager, lastCall>>

\* syncManager.flush(), called by the application
flush_call(p) ==
  /\ syncManager
  /\ LET mode == flush_mode(InFlight_writer, pending) IN
       /\ Call(p, IF mode = "nothing"
                    THEN Done(Begin("flush", "fl_wait"), Return(Str("nothing to sync")))
                  ELSE Begin("flush", "fl_wait"))
       /\ flush_starts(mode, timers)
  /\ UNCHANGED <<storage, currentUser, autoRefresh, now, pkce, issued>>
  /\ UNCHANGED <<redeemed, syncManager, lastCall>>

\* logout(): pending sync data is flushed first, otherwise storage.getTokens()
logout_call(p) ==
  /\ IF syncManager /\ hasPendingData(pending) THEN
       LET mode == flush_mode(InFlight_writer, pending) IN
         /\ Call(p, Begin("logout", "fl_wait"))
         /\ flush_starts(mode, timers)
     ELSE
       /\ Call(p, [Begin("logout", "lo_tokens") EXCEPT !.tokens = storage])
       /\ UNCHANGED <<pending, timers, payload, writer>>
  /\ UNCHANGED <<storage, currentUser, autoRefresh, now, pkce, issued>>
  /\ UNCHANGED <<redeemed, syncManager, lastCall>>

logout_resume(p) ==
  /\ proc[p].pc = "lo_tokens"
  /\ Set(p, logout_body(proc[p]))
  /\ storage' = IF proc'[p].pc = "lo_clear" THEN Null ELSE storage
  /\ UNCHANGED <<currentUser, autoRefresh, now, pkce, issued, overlap>>
  /\ UNCHANGED <<redeemed, syncVars>>

\* logout after `await this.request(ENDPOINTS.revoke, ...)`: whatever the answer,
\* storage.clearTokens() is called
logout_fetch(p) ==
  /\ proc[p].pc = "lo_fetch"
  /\ \E f \in RevokeFetches : Set(p, logout_revoked(proc[p], request(f)))
  /\ storage' = IF proc'[p].pc = "lo_clear" THEN Null ELSE storage
  /\ UNCHANGED <<currentUser, autoRefresh, now, pkce, issued, overlap>>
  /\ UNCHANGED <<redeemed, syncVars>>

\* logout after `await this.storage.clearTokens()`: the cached user is dropped
\* and the sync manager, if there is one, cleared
logout_clear(p) ==
  /\ proc[p].pc = "lo_clear"
  /\ currentUser' = Null
  /\ pending' = IF syncManager THEN NoData ELSE pending
  /\ timers' = IF syncManager THEN 0 ELSE timers
  /\ Set(p, Done([proc[p] EXCEPT !.tokens = Null], Return(Undefined)))
  /\ UNCHANGED <<storage, autoRefresh, now, pkce, issued, overlap>>
  /\ UNCHANGED <<redeemed, syncManager, payload, lastCall, writer>>

\* the write in flight goes on to r; once r has settled, so has the flush: the
\* queue gets the data back if the write failed, and the awaiting callers resume
writer_step(r) ==
  IF r.pc = "done" THEN
    /\ writer' = Resting
    /\ payload' = NoData
    /\ pending' = flush_pending(payload, pending, r.result)
    /\ proc' = [q \in Procs |->
                  IF proc[q].pc = "fl_wait"
                    THEN flush_resumed(proc[q], flush_result(r.result), storage')
                  ELSE proc[q]]
  ELSE
    /\ writer' = r
    /\ UNCHANGED <<payload, pending, proc>>

\* the write: getAccessToken after `await this.storage.getTokens()`
writer_resume ==
  /\ writer.pc = "ga_tokens"
  /\ UNCHANGED <<storage, currentUser, autoRefresh, now, pkce, issued, overlap>>
  /\ UNCHANGED <<redeemed, syncManager, timers, lastCall>>
  /\ writer_step(authenticatedRequest_body(
         getAccessToken_body(writer, storage, now, autoRefresh)))

\* the write: refreshTokens after `await this.storage.getTokens()`
writer_refresh_resume ==
  /\ writer.pc = "rt_tokens"
  /\ UNCHANGED <<storage, currentUser, autoRefresh, now, pkce, issued, overlap>>
  /\ UNCHANGED <<redeemed, syncManager, timers, lastCall>>
  /\ writer_step(authenticatedRequest_body(refreshTokens_body(writer)))

\* the write: the answer to a request in flight arrives
writer_fetch(at, to, fetches) ==
  /\ writer.pc = at
  /\ \E f \in fetches : writer' = [writer EXCEPT !.pc = to, !.resp = f]
  /\ UNCHANGED <<storage, currentUser, autoRefresh, now, pkce, issued, proc, overlap>>
  /\ UNCHANGED <<redeemed, syncManager, pending, timers, payload, lastCall>>

writer_refresh_fetch == writer_fetch("rt_fetch", "rt_response", FewRefreshFetches)

\* the write: refreshTokens after `await this.request(...)`
writer_refresh_response ==
  /\ writer.pc = "rt_response"
  /\ LET o == request(writer.resp) IN
       /\ storage' = refreshTokens_stored(storage, o, writer.rtokens, now)
       /\ writer_step(authenticatedRequest_body(refreshTokens_settle(writer,
              IF o.kind = "throw" THEN o ELSE Return(Obj(storage')))))
  /\ UNCHANGED <<currentUser, autoRefresh, now, pkce, issued, overlap>>
  /\ UNCHANGED <<redeemed, syncManager, timers, lastCall>>

writer_sync_fetch == writer_fetch("sd_fetch", "sd_response", SyncFetches)

\* the write: syncData after `await this.authenticatedRequest(...)`
writer_sync_response ==
  /\ writer.pc = "sd_response"
  /\ UNCHANGED <<storage, currentUser, autoRefresh, now, pkce, issued, overlap>>
  /\ UNCHANGED <<redeemed, syncManager, timers, lastCall>>
  /\ LET o == request(writer.resp) IN
       writer_step(Done(writer, IF o.kind = "throw" THEN o ELSE Return(Undefined)))

\* time passes
Tick ==
  /\ now < MaxTicks * TOKEN_REFRESH_BUFFER
  /\ now' = now + TOKEN_REFRESH_BUFFER
  /\ UNCHANGED <<storage, currentUser, autoRefresh, pkce, issued, proc, overlap>>
  /\ UNCHANGED <<redeemed, syncVars>>

Init ==
  /\ storage \in {Null, PersistedTokens}
  /\ currentUser = Null
  /\ autoRefresh \in BOOLEAN
  /\ now = 0
  /\ pkce = [s \in {} |-> ""]
  /\ issued = {}
  /\ proc = [p \in Procs |-> Resting]
  /\ overlap = [p \in Procs |-> {}]
  /\ redeemed = {}
  /\ syncManager = FALSE
  /\ pending = NoData
  /\ timers = 0
  /\ payload = NoData
  /\ lastCall = <<>>
  /\ writer = Resting

\* the token lifecycle
Next ==
  \/ Tick
  \/ \E p \in Procs :
       \/ getAccessToken_call(p)
       \/ getAccessToken_resume(p)
       \/ isAuthenticated_call(p)
       \/ isAuthenticated_resume(p)
       \/ refreshTokens_call(p)
       \/ refreshTokens_resume(p)
       \/ refreshTokens_fetch(p)
       \/ refreshTokens_response(p)

Spec == Init /\ [][Next]_vars

\* the authorization flow
AuthNext ==
  \/ Tick
  \/ \E p \in Procs :
       \/ startAuth_call(p)
       \/ startAuth_resume(p)
       \/ handleCallback_call(p)
       \/ handleCallback_fetch(p)
       \/ handleCallback_response(p)
       \/ handleTokenResponse_resume(p)

AuthSpec == Init /\ [][AuthNext]_vars

\* the inputs of queue() in the flows where the data itself does not matter
FewObjects == {[gold |-> 100], [gold |-> 150, wood |-> 5]}

\* the token lifecycle, with logout
RaceNext ==
  \/ Tick
  \/ \E p \in Procs :
       \/ getAccessToken_call(p)
       \/ getAccessToken_resume(p)
       \/ isAuthenticated_call(p)
       \/ isAuthenticated_resume(p)
       \/ refreshTokens_call(p)
       \/ refreshTokens_resume(p)
       \/ refreshTokens_fetch(p)
       \/ refreshTokens_response(p)
       \/ logout_call(p)
       \/ logout_resume(p)
       \/ logout_fetch(p)
       \/ logout_clear(p)

RaceSpec == Init /\ [][RaceNext]_vars

\* the write in flight
writer_next ==
  \/ writer_resume
  \/ writer_refresh_resume
  \/ writer_refresh_fetch
  \/ writer_refresh_response
  \/ writer_sync_fetch
  \/ writer_sync_response

\* the sync engine: queue, timer and flush
SyncNext ==
  \/ Tick
  \/ getSyncManager
  \/ \E d \in FewObjects : queue("stats", d)
  \/ timer_fires
  \/ writer_next
  \/ \E p \in Procs : flush_call(p)

SyncSpec == Init /\ [][SyncNext]_vars

\* logout, with the sync engine at work
LogoutNext ==
  \/ getSyncManager
  \/ queue("stats", [gold |-> 100])
  \/ timer_fires
  \/ writer_resume
  \/ writer_sync_fetch
  \/ writer_sync_response
  \/ \E p \in Procs :
       \/ register_call(p)
       \/ register_fetch(p)
       \/ handleCallback_response(p)
       \/ handleTokenResponse_resume(p)
       \/ logout_call(p)
       \/ logout_resume(p)
       \/ logout_fetch(p)
       \/ logout_clear(p)

LogoutSpec == Init /\ [][LogoutNext]_vars

\* flush, by the timer, by the application and by logout
FlushNext ==
  \/ getSyncManager
  \/ queue("stats", [gold |-> 100])
  \/ timer_fires
  \/ writer_resume
  \/ writer_sync_fetch
  \/ writer_sync_response
  \/ \E p \in Procs :
       \/ flush_call(p)
       \/ logout_call(p)
       \/ logout_resume(p)
       \/ logout_fetch(p)
       \/ logout_clear(p)

FlushSpec == Init /\ [][FlushNext]_vars

\* the queue: what a window of queue() calls leaves for its flush
QueueNext ==
  \/ getSyncManager
  \/ \E c \in Categories, d \in Objects : queue(c, d)
  \/ timer_fires
  \/ writer_resume
  \/ writer_sync_fetch
  \/ writer_sync_response

QueueSpec == Init /\ [][QueueNext]_vars

\* register, with every kind of failure the request may meet
register_fetch_errors(p) ==
  fetch_settle(p, "rg_fetch", "hc_response", ErrorFetches \cup RegisterFetches)

ErrorNext ==
  \E p \in Procs :
    \/ register_call(p)
    \/ register_fetch_errors(p)
    \/ handleCallback_response(p)
    \/ handleTokenResponse_resume(p)

ErrorSpec == Init /\ [][ErrorNext]_vars

\* the refresh request settles, in the flows where the refresh is only a step on
\* the way
refreshTokens_fetch_few(p) ==
  fetch_settle(p, "rt_fetch", "rt_response", FewRefreshFetches)

\* the requests that carry the access token: getUser, syncData and the write of
\* the sync manager
RequestNext ==
  \/ Tick
  \/ getSyncManager
  \/ queue("stats", [gold |-> 100])
  \/ timer_fires
  \/ writer_next
  \/ getUser_call("c1")
  \/ syncData_call("c2")
  \/ \E p \in Procs :
       \/ getAccessToken_resume(p)
       \/ refreshTokens_resume(p)
       \/ refreshTokens_fetch_few(p)
       \/ refreshTokens_response(p)
       \/ authenticatedRequest_fetch(p)
       \/ getUser_response(p)
       \/ syncData_response(p)

RequestSpec == Init /\ [][RequestNext]_vars

\* every operation that reads or writes the token store, called one after the
\* other by one caller
FrameNext ==
  \/ Tick
  \/ getAccessToken_call("c1")
  \/ getTokens_call("c1")
  \/ getCachedUser("c1")
  \/ getUser_call("c1")
  \/ syncData_call("c1")
  \/ startAuth_call("c1")
  \/ handleCallback_call("c1")
  \/ register_call("c1")
  \/ refreshTokens_call("c1")
  \/ logout_call("c1")
  \/ \E p \in Procs :
       \/ getAccessToken_resume(p)
       \/ getTokens_resume(p)
       \/ refreshTokens_resume(p)
       \/ refreshTokens_fetch_few(p)
       \/ refreshTokens_response(p)
       \/ authenticatedRequest_fetch(p)
       \/ getUser_response(p)
       \/ syncData_response(p)
       \/ startAuth_resume(p)
       \/ handleCallback_fetch(p)
       \/ register_fetch(p)
       \/ handleCallback_response(p)
       \/ handleTokenResponse_resume(p)
       \/ logout_resume(p)
       \/ logout_fetch(p)
       \/ logout_clear(p)

FrameSpec == Init /\ [][FrameNext]_vars

-----------------------------------------------------------------------------
(* Properties *)

\* caller p takes a step
Steps(p) == proc'[p] # proc[p]

\* caller p begins a call of method m in this step
Begins(p, m) == proc[p].pc = "done" /\ Steps(p) /\ proc'[p].op = m

\* the fetch has failed: no response, or a non-2xx one
Failed(f) == f.kind = "reject" \/ f.status < 200 \/ f.status > 299

\* the typed error the caller of a failed request is to see
ErrorOf(f) ==
  IF f.kind = "reject" THEN "NetworkError"
  ELSE IF f.status = 401 THEN "InvalidTokenError"
  ELSE IF f.status = 429 THEN "RateLimitError"
  ELSE IF f.status = 400 THEN "ValidationError"
  ELSE "FunProfileError"

\* a refresh token the server has supplied
Supplied(v) == v.t = "string" /\ v.s # ""

\* this step is a queue() call
Queues ==
  /\ proc' = proc /\ writer' = writer /\ syncManager' = syncManager /\ now' = now
  /\ (pending' # pending \/ timers' > timers \/ lastCall' # lastCall)

\* this step is the debounce timer firing
TimerFires == timers' < timers /\ proc' = proc

\* in this step a sync write starts, and in this one the write in flight settles
FlushBegins == ~InFlight_writer /\ writer'.pc # "done"
FlushSettles == InFlight_writer /\ writer'.pc = "done"

\* the step the write in flight is about to take fails: no access token to be
\* had, or the sync request is refused or unanswered
WriteFailing ==
  \/ /\ writer.pc = "ga_tokens"
     /\ \/ writer.tokens = Null
        \/ /\ writer.tokens # Null
           /\ now >= writer.tokens.expiresAt - TOKEN_REFRESH_BUFFER
           /\ ~autoRefresh
  \/ writer.pc = "rt_tokens" /\ writer.rtokens = Null
  \/ writer.pc \in {"rt_response", "sd_response"} /\ Failed(writer.resp)

\* what a caller that awaited the flush has seen of it
Observed(r) == IF r.op = "logout" THEN r.flush ELSE r.result.kind

\* C1: at most one refresh request started by getAccessToken() is outstanding at
\* any moment (the other callers wait for it instead of sending their own).
C1_SingleflightRefresh ==
  Cardinality({p \in Procs : proc[p].op = "getAccessToken" /\ proc[p].pc = "rt_fetch"}) <= 1

\* C2: getAccessToken() calls in flight at the same time that read the same Stale
\* record, with autoRefresh on, send one refresh request between them and resolve
\* to the same access token, the one of the stored record.
C2_OneRefreshSameToken ==
  \A p, q \in Procs :
    ( /\ Concurrent(p, q)
      /\ autoRefresh
      /\ proc[p].op = "getAccessToken" /\ proc[q].op = "getAccessToken"
      /\ proc[p].branch = "stale" /\ proc[q].branch = "stale"
      /\ proc[p].tokens = proc[q].tokens )
    => /\ proc[p].sent + proc[q].sent <= 1
       /\ ( /\ proc[p].pc = "done" /\ proc[q].pc = "done"
            /\ proc[p].result.kind = "return" /\ proc[q].result.kind = "return" )
          => /\ proc[p].result = proc[q].result
             /\ storage # Null /\ proc[p].result.val = storage.accessToken

\* C3: getAccessToken() on a record with now < expiresAt - refreshBuffer returns
\* the accessToken of that record, sends no request and leaves the store as it is.
C3_FreshReturnsStored ==
  [][\A p \in Procs :
       ( /\ proc[p].op = "getAccessToken" /\ proc[p].pc = "ga_tokens" /\ Steps(p)
         /\ proc[p].tokens # Null
         /\ now < proc[p].tokens.expiresAt - TOKEN_REFRESH_BUFFER )
       => /\ proc'[p].pc = "done"
          /\ proc'[p].result = Return(proc[p].tokens.accessToken)
          /\ proc'[p].sent = 0
          /\ storage' = storage]_vars

C3_Witness ==
  \E p \in Procs :
    /\ proc[p].op = "getAccessToken" /\ proc[p].pc = "done" /\ proc[p].branch = "fresh"
    /\ proc[p].result = Return(Str("a2")) /\ proc[p].sent = 0

\* C4: getAccessToken() on a Stale record with autoRefresh off throws
\* TokenExpiredError: no token is returned, no request sent, the store unchanged.
C4_StaleNoRefreshThrows ==
  [][\A p \in Procs :
       ( /\ proc[p].op = "getAccessToken" /\ proc[p].pc = "ga_tokens" /\ Steps(p)
         /\ proc[p].tokens # Null
         /\ now >= proc[p].tokens.expiresAt - TOKEN_REFRESH_BUFFER
         /\ ~autoRefresh )
       => /\ proc'[p].pc = "done"
          /\ proc'[p].result = Throw("TokenExpiredError")
          /\ proc'[p].sent = 0
          /\ storage' = storage]_vars

C4_Witness ==
  \E p \in Procs :
    /\ proc[p].op = "getAccessToken" /\ proc[p].pc = "done" /\ proc[p].branch = "stale"
    /\ ~autoRefresh /\ proc[p].result = Throw("TokenExpiredError") /\ storage # Null

\* C5 (as claimed): getAccessToken() with no stored record ends with an error,
\* never with a value.
C5_NoRecordFails ==
  \A p \in Procs :
    (proc[p].op = "getAccessToken" /\ proc[p].pc = "done" /\ proc[p].branch = "none")
    => proc[p].result.kind = "throw"

\* C5 (amended): getAccessToken() with no stored record completes normally with
\* null; it sends no request and leaves the store unchanged.
C5_NoRecordReturnsNull ==
  [][\A p \in Procs :
       ( /\ proc[p].op = "getAccessToken" /\ proc[p].pc = "ga_tokens" /\ Steps(p)
         /\ proc[p].tokens = Null )
       => /\ proc'[p].pc = "done"
          /\ proc'[p].result = Return(Null)
          /\ proc'[p].sent = 0
          /\ storage' = storage]_vars

C5_Witness ==
  \E p \in Procs :
    /\ proc[p].op = "getAccessToken" /\ proc[p].pc = "done" /\ proc[p].branch = "none"
    /\ proc[p].result = Return(Null) /\ storage = Null

\* C6: a refresh that fails (the request is rejected by the server or by the
\* transport, or there is nothing to refresh) throws its error to its caller and
\* leaves the store as it is: no failed refresh clears or alters the record, and
\* with no other call about, the store still holds the record read when the
\* refresh began.
C6_FailedRefreshKeepsRecord ==
  [][\A p \in Procs :
       /\ ( /\ proc[p].pc = "rt_response" /\ Steps(p) /\ Failed(proc[p].resp) )
          => /\ storage' = storage
             /\ proc'[p].pc = "done"
             /\ proc[p].op \in {"refreshTokens", "getAccessToken"}
                  => proc'[p].result = Throw(ErrorOf(proc[p].resp))
             /\ Isolated(p) => storage' = proc[p].rtokens
       /\ ( /\ proc[p].pc = "rt_tokens" /\ Steps(p) /\ proc[p].rtokens = Null )
          => /\ storage' = storage
             /\ proc'[p].pc = "done"
             /\ proc[p].op \in {"refreshTokens", "getAccessToken"}
                  => proc'[p].result = Throw("InvalidTokenError")]_vars

C6_Witness ==
  \E p \in Procs :
    /\ proc[p].op = "refreshTokens" /\ proc[p].pc = "done" /\ proc[p].sent = 1
    /\ proc[p].result = Throw("InvalidTokenError")
    /\ storage = PersistedTokens

\* C7: a successful refresh stores the refresh token of the response when the
\* response has one, and otherwise the refresh token of the record read when the
\* refresh began; with no other call about, a response without refresh_token
\* leaves the stored refresh token as it was, refresh after refresh.
C7_RefreshTokenRetained ==
  [][\A p \in Procs :
       ( /\ proc[p].pc = "rt_response" /\ Steps(p) /\ ~Failed(proc[p].resp) )
       => LET supplied == proc[p].resp.body.o.refresh_token IN
            /\ storage' # Null
            /\ storage'.refreshToken =
                 IF Supplied(supplied) THEN supplied ELSE proc[p].rtokens.refreshToken
            /\ (Isolated(p) /\ ~Supplied(supplied))
                 => storage'.refreshToken = storage.refreshToken]_vars

C7_Witness ==
  \E p \in Procs :
    /\ proc[p].op = "refreshTokens" /\ proc[p].pc = "done" /\ proc[p].sent = 1
    /\ proc[p].result = Return(Obj(storage))
    /\ storage.accessToken = Str("a2") /\ storage.refreshToken = Str("r1")

\* C8: isAuthenticated() completes with false whenever the refresh it has begun
\* fails, whatever the failure; getAccessToken() then throws that failure.
C8_IsAuthenticatedSwallows ==
  [][\A p \in Procs :
       ( /\ Steps(p)
         /\ \/ proc[p].pc = "rt_response" /\ Failed(proc[p].resp)
            \/ proc[p].pc = "rt_tokens" /\ proc[p].rtokens = Null )
       => /\ proc[p].op = "isAuthenticated"
            => proc'[p].pc = "done" /\ proc'[p].result = Return(Bool(FALSE))
          /\ proc[p].op = "getAccessToken"
            => proc'[p].pc = "done" /\ proc'[p].result.kind = "throw"]_vars

C8_Witness ==
  \E p, q \in Procs :
    /\ proc[p].op = "isAuthenticated" /\ proc[p].pc = "done" /\ proc[p].sent = 1
    /\ proc[p].result = Return(Bool(FALSE))
    /\ proc[q].op = "getAccessToken" /\ proc[q].pc = "done" /\ proc[q].sent = 1
    /\ proc[q].result.kind = "throw"

\* C9 (as claimed): whatever the autoRefresh flag, isAuthenticated() does not
\* answer false for a stored record without a refresh having failed.
C9_TrueIfRefreshable ==
  [][\A p \in Procs :
       ( /\ proc[p].op = "isAuthenticated" /\ proc[p].pc = "ia_tokens" /\ Steps(p)
         /\ proc[p].tokens # Null /\ proc'[p].pc = "done" )
       => proc'[p].result = Return(Bool(TRUE))]_vars

\* C9 (amended): isAuthenticated() answers true exactly when it read a record that
\* is Fresh, or that is Stale with autoRefresh on and the refresh it makes
\* succeeds; for a Stale record with autoRefresh off it answers false and sends no
\* request; with no record it answers false.
C9_IsAuthenticatedResult ==
  [][\A p \in Procs :
       (proc[p].op = "isAuthenticated" /\ Steps(p))
       => CASE proc[p].pc = "ia_tokens" ->
                 IF proc[p].tokens = Null
                   THEN proc'[p].pc = "done" /\ proc'[p].result = Return(Bool(FALSE))
                 ELSE IF now < proc[p].tokens.expiresAt - TOKEN_REFRESH_BUFFER
                   THEN proc'[p].pc = "done" /\ proc'[p].result = Return(Bool(TRUE))
                 ELSE IF autoRefresh
                   THEN proc'[p].pc = "rt_tokens"
                 ELSE /\ proc'[p].pc = "done" /\ proc'[p].sent = 0
                      /\ proc'[p].result = Return(Bool(FALSE))
            [] proc[p].pc = "rt_tokens" ->
                 IF proc[p].rtokens = Null
                   THEN proc'[p].pc = "done" /\ proc'[p].result = Return(Bool(FALSE))
                 ELSE proc'[p].pc = "rt_fetch"
            [] proc[p].pc = "rt_response" ->
                 /\ proc'[p].pc = "done"
                 /\ proc'[p].result = Return(Bool(~Failed(proc[p].resp)))
            [] OTHER -> TRUE]_vars

C9_Witness ==
  \E p \in Procs :
    /\ proc[p].op = "isAuthenticated" /\ proc[p].pc = "done" /\ proc[p].branch = "stale"
    /\ ~autoRefresh /\ proc[p].sent = 0 /\ proc[p].result = Return(Bool(FALSE))
    /\ proc[p].tokens = storage

\* C10: handleCallback(code, state) with a state that startAuth() has not
\* produced throws ValidationError, sends no request to the token endpoint and
\* leaves the token store and the cached user unchanged.
C10_UnknownStateRejected ==
  [][\A p \in Procs :
       (Begins(p, "handleCallback") /\ proc'[p].state \notin issued)
       => /\ proc'[p].pc = "done"
          /\ proc'[p].result = Throw("ValidationError")
          /\ proc'[p].sent = 0
          /\ storage' = storage
          /\ currentUser' = currentUser]_vars

C10_Witness ==
  \E p \in Procs :
    /\ proc[p].op = "handleCallback" /\ proc[p].pc = "done"
    /\ proc[p].state \notin issued
    /\ proc[p].result = Throw("ValidationError") /\ proc[p].sent = 0
    /\ storage # Null /\ currentUser # Null

\* C11: a state is redeemed once: a handleCallback carrying a state with which an
\* earlier handleCallback has reached the token exchange (whether that exchange
\* succeeded or failed) throws ValidationError and sends nothing, so of the
\* handleCallback calls carrying one state at most one reaches the exchange.
C11_StateRedeemedOnce ==
  [][\A p \in Procs :
       Begins(p, "handleCallback")
       => /\ proc'[p].state \in redeemed
               => /\ proc'[p].pc = "done"
                  /\ proc'[p].result = Throw("ValidationError")
                  /\ proc'[p].sent = 0
                  /\ storage' = storage
          /\ proc'[p].sent = 1 => proc'[p].state \notin redeemed]_vars

C11_Witness ==
  \E p, q \in Procs :
    /\ proc[p].op = "handleCallback" /\ proc[p].pc = "done" /\ proc[p].sent = 1
    /\ proc[p].result.kind = "throw"
    /\ proc[q].op = "handleCallback" /\ proc[q].pc = "done" /\ proc[q].sent = 0
    /\ proc[q].state = proc[p].state /\ proc[q].state \in redeemed
    /\ proc[q].result = Throw("ValidationError")

\* C12: logout() never raises: whether the flush before it and the revoke request
\* succeed or fail, it calls storage.clearTokens(), which empties the token
\* store, and then completes with the cached user null, the sync queue empty and
\* no timer armed; between the two the store stays empty unless another call in
\* flight stores the record of its own token response.
C12_LogoutAlwaysClears ==
  [][\A p \in Procs :
       /\ (proc[p].op = "logout" /\ proc[p].pc # "done" /\ Steps(p))
          => /\ proc'[p].op = "logout"
             /\ proc'[p].result.kind # "throw"
             /\ proc'[p].pc = "lo_clear" => storage' = Null
             /\ proc[p].pc = "lo_fetch" => proc'[p].pc = "lo_clear"
             /\ proc'[p].pc = "done"
                  => /\ proc[p].pc = "lo_clear"
                     /\ proc'[p].result = Return(Undefined)
                     /\ storage' = storage
                     /\ currentUser' = Null
                     /\ pending' = NoData
                     /\ timers' = 0
       /\ ( /\ proc[p].op = "logout" /\ proc[p].pc = "lo_clear"
            /\ storage = Null /\ storage' # Null )
          => \/ \E q \in Procs \ {p} :
                  proc[q].pc \in {"hc_response", "rt_response"} /\ Steps(q)
             \/ writer.pc = "rt_response" /\ writer' # writer]_vars

C12_Witness ==
  \E p, q \in Procs :
    /\ proc[p].op = "logout" /\ proc[p].pc = "done"
    /\ proc[p].flush = "throw" /\ proc[p].revoke = "throw"
    /\ proc[p].result = Return(Undefined)
    /\ proc[q].op = "register" /\ proc[q].pc = "done" /\ proc[q].result.kind = "return"
    /\ syncManager /\ storage = Null /\ currentUser = Null /\ pending = NoData

\* C13: a successful authorization-code exchange stores the access_token and
\* refresh_token of the response, its scope string cut at the spaces into the
\* list of its words in order, and expiresAt = now + expires_in * 1000 ms; the
\* result of handleCallback carries these tokens and the profile the response
\* embeds.
C13_ExchangeStoresRecord ==
  [][\A p \in Procs :
       /\ (proc[p].pc = "hc_response" /\ Steps(p) /\ ~Failed(proc[p].resp))
          => LET response == proc[p].resp.body.o IN
               /\ storage' # Null
               /\ storage'.accessToken = response.access_token
               /\ storage'.refreshToken = response.refresh_token
               /\ storage'.expiresAt = now + response.expires_in * 1000
               /\ Join(storage'.scope) = response.scope.c
               /\ \A i \in DOMAIN storage'.scope :
                    \A j \in DOMAIN storage'.scope[i] : storage'.scope[i][j] # " "
               /\ proc'[p].pc = "ht_set"
       /\ (proc[p].pc = "ht_set" /\ Steps(p))
          => LET response == proc[p].resp.body.o IN
               /\ proc'[p].pc = "done"
               /\ proc'[p].result.kind = "return"
               /\ proc'[p].result.val.o.accessToken = response.access_token
               /\ proc'[p].result.val.o.refreshToken = response.refresh_token
               /\ response.user.t = "object"
                    => /\ proc'[p].result.val.o.user =
                            Obj([id |-> response.user.o.id, funId |-> response.user.o.fun_id])
                       /\ currentUser' = proc'[p].result.val.o.user]_vars

C13_Witness ==
  \E p \in Procs :
    /\ proc[p].op = "handleCallback" /\ proc[p].pc = "done"
    /\ proc[p].result.kind = "return"
    /\ proc[p].result.val.o.user = Obj([id |-> "u1", funId |-> "f1"])
    /\ storage # Null
    /\ storage.accessToken = proc[p].result.val.o.accessToken
    /\ storage.scope = << <<"p">>, <<"e">> >>
    /\ storage.expiresAt = 3 * TOKEN_REFRESH_BUFFER

\* C20: one getAccessToken(), isAuthenticated() or refreshTokens() call sends at
\* most one request to the token endpoint; when that request fails (an error
\* answer, no answer, a timeout) the call ends there, with the failure or, for
\* isAuthenticated(), with false, and sends nothing more.
C20_NoRetry ==
  [][\A p \in Procs :
       (Steps(p) /\ proc[p].op \in {"getAccessToken", "isAuthenticated", "refreshTokens"})
       => /\ proc'[p].op = proc[p].op => proc'[p].sent <= 1
          /\ (proc[p].pc = "rt_response" /\ Failed(proc[p].resp))
               => /\ proc'[p].pc = "done"
                  /\ proc'[p].sent = proc[p].sent
                  /\ proc'[p].result =
                       IF proc[p].op = "isAuthenticated" THEN Return(Bool(FALSE))
                       ELSE Throw(ErrorOf(proc[p].resp))]_vars

C20_Witness ==
  \E p \in Procs :
    /\ proc[p].op = "getAccessToken" /\ proc[p].pc = "done" /\ proc[p].sent = 1
    /\ proc[p].result = Throw("NetworkError")
    /\ storage = PersistedTokens

\* C14: a flush() made while a sync write is in flight (by the application, by
\* logout() with data pending, or by the timer) starts no write and leaves the
\* write in flight, its data and the queue as they are; the callers wait, and
\* when the write settles all of them see its one outcome.
C14_FlushCollapsing ==
  [][/\ \A p \in Procs :
          ( /\ proc[p].pc = "done" /\ Steps(p) /\ InFlight_writer
            /\ \/ proc'[p].op = "flush"
               \/ proc'[p].op = "logout" /\ syncManager /\ pending # NoData )
          => /\ proc'[p].pc = "fl_wait"
             /\ writer' = writer /\ payload' = payload /\ pending' = pending
     /\ (TimerFires /\ InFlight_writer)
          => writer' = writer /\ payload' = payload /\ pending' = pending
     /\ FlushSettles
          => \A p \in Procs :
               proc[p].pc = "fl_wait"
               => /\ Observed(proc'[p]) = IF WriteFailing THEN "throw" ELSE "return"
                  /\ proc[p].op = "flush" => proc'[p].pc = "done"
                  /\ \A q \in Procs :
                       (proc[q].pc = "fl_wait" /\ proc[q].op = proc[p].op)
                       => proc'[q].result = proc'[p].result]_vars

C14_Witness ==
  \E p, q \in Procs :
    /\ Concurrent(p, q)
    /\ proc[p].op = "flush" /\ proc[p].pc = "done" /\ proc[p].result = Throw("NetworkError")
    /\ proc[q].op = "logout" /\ proc[q].pc = "lo_tokens" /\ proc[q].flush = "throw"
    /\ pending # NoData /\ ~InFlight_writer

\* C15: a queue(category, data) call sets, in the pending entry of its category,
\* every field of data to the value data gives it and leaves the other fields of
\* that entry and the entries of the other categories as they were; the flush
\* takes the whole queue as its payload.  So the payload is, per category, the
\* merge of the calls of the window with the last value of each field winning,
\* whatever the order of the calls for different categories.
C15_LastValueWins ==
  [][/\ Queues
          => LET c == lastCall'[1]
                 d == lastCall'[2]
             IN /\ DOMAIN pending' = DOMAIN pending \cup {c}
                /\ \A k \in DOMAIN pending \ {c} : pending'[k] = pending[k]
                /\ DOMAIN pending'[c] = DOMAIN entry(pending, c) \cup DOMAIN d
                /\ \A f \in DOMAIN pending'[c] :
                     pending'[c][f] = IF f \in DOMAIN d THEN d[f] ELSE pending[c][f]
     /\ FlushBegins => payload' = pending /\ pending' = NoData]_vars

C15_Witness ==
  /\ InFlight_writer
  /\ lastCall = <<"stats", [gold |-> 150, wood |-> 5]>>
  /\ DOMAIN payload = {"stats", "farm"}
  /\ payload["stats"] = [gold |-> 150, wood |-> 5]
  /\ payload["farm"] = [gold |-> 100, wood |-> 5]

\* C16: when the sync write fails (no access token to be had, or the request
\* refused or unanswered) the flush settles with the queue holding every field
\* of the data it had taken, under its newer value if one has been queued since;
\* the queue is then not empty and the next write carries all of it.
C16_FailedFlushRestores ==
  [][/\ (InFlight_writer /\ writer' # writer /\ WriteFailing)
          => /\ writer'.pc = "done"
             /\ pending' # NoData
             /\ \A c \in DOMAIN payload :
                  /\ c \in DOMAIN pending'
                  /\ \A f \in DOMAIN payload[c] :
                       /\ f \in DOMAIN pending'[c]
                       /\ pending'[c][f] =
                            IF c \in DOMAIN pending /\ f \in DOMAIN pending[c]
                              THEN pending[c][f] ELSE payload[c][f]
             /\ \A p \in Procs :
                  (proc[p].pc = "fl_wait" /\ proc[p].op = "flush")
                  => proc'[p].pc = "done" /\ proc'[p].result.kind = "throw"
     /\ FlushBegins => payload' = pending /\ payload' # NoData]_vars

C16_Witness ==
  \E p \in Procs :
    /\ proc[p].op = "flush" /\ proc[p].pc = "done"
    /\ proc[p].result = Throw("InvalidTokenError")
    /\ storage = Null /\ ~InFlight_writer /\ timers = 0
    /\ DOMAIN pending = {"stats"} /\ pending["stats"] = [gold |-> 150, wood |-> 5]

C18_QueuedDuringFlushKept ==
  [][/\ (Queues /\ InFlight_writer) => payload' = payload /\ pending' # NoData
     /\ FlushSettles
          => \A c \in DOMAIN pending :
               /\ c \in DOMAIN pending'
               /\ \A f \in DOMAIN pending[c] :
                    f \in DOMAIN pending'[c] /\ pending'[c][f] = pending[c][f]
     /\ FlushBegins => payload' = pending]_vars

C18_Witness ==
  /\ InFlight_writer /\ writer.pc = "sd_response" /\ ~Failed(writer.resp)
  /\ DOMAIN payload = {"stats"} /\ payload["stats"] = [gold |-> 100]
  /\ DOMAIN pending = {"stats"} /\ pending["stats"] = [gold |-> 150, wood |-> 5]
  /\ timers = 1

\* C19: when a call that refreshes (getAccessToken, isAuthenticated or
\* refreshTokens, its refresh request sent) and a logout() have been in flight at
\* the same time and both have completed, the token store holds no record.
C19_LogoutWinsRace ==
  \A p, q \in Procs :
    ( /\ Concurrent(p, q)
      /\ proc[p].op = "logout" /\ proc[p].pc = "done"
      /\ proc[q].op \in {"getAccessToken", "isAuthenticated", "refreshTokens"}
      /\ proc[q].pc = "done" /\ proc[q].sent = 1 )
    => storage = Null

\* the operations the claim C21 lists as leaving the token store alone
Readers == {"getTokens", "getUser", "getCachedUser", "syncData", "startAuth"}

\* caller p takes a step of a call of one of the methods ms
StepOf(p, ms) ==
  /\ Steps(p)
  /\ IF proc[p].pc = "done" THEN proc'[p].op \in ms ELSE proc[p].op \in ms

\* C21 (as claimed): no step of getTokens, getUser, getCachedUser, syncData or
\* startAuth, no step of getAccessToken on a fresh record and no step of a
\* failed handleCallback, register or refresh changes the token store.
C21_OthersLeaveStore ==
  [][\A p \in Procs :
       ( \/ StepOf(p, Readers)
         \/ /\ StepOf(p, {"getAccessToken"})
            /\ proc[p].pc = "ga_tokens" /\ proc[p].tokens # Null
            /\ ~IsStale(proc[p].tokens, now)
         \/ /\ Steps(p) /\ proc[p].pc \in {"hc_response", "rt_response"}
            /\ Failed(proc[p].resp) )
       => storage' = storage]_vars

\* C21 (amended): the token store changes only in three kinds of step: a
\* successful token response of handleCallback or register stores its record, a
\* successful refresh response stores its record, and logout empties the store.
\* getAccessToken, getUser and syncData on a fresh record send no refresh and
\* change nothing; getTokens, getCachedUser, startAuth, a failed handleCallback,
\* register or refresh change nothing; getUser and syncData on a stale record
\* change the store only by the refresh they make.
C21_StoreFrame ==
  [][/\ \A p \in Procs :
          /\ ( \/ StepOf(p, {"getTokens", "getCachedUser", "startAuth"})
               \/ /\ StepOf(p, {"getUser", "syncData", "getAccessToken"})
                  /\ ~(proc[p].pc = "rt_response" /\ ~Failed(proc[p].resp))
               \/ /\ Steps(p) /\ proc[p].pc \in {"hc_response", "rt_response"}
                  /\ Failed(proc[p].resp) )
             => storage' = storage
          /\ ( /\ StepOf(p, {"getUser", "syncData", "getAccessToken"})
               /\ proc[p].pc = "ga_tokens" /\ proc[p].tokens # Null
               /\ ~IsStale(proc[p].tokens, now) )
             => proc'[p].pc \in {"done", "sd_fetch"} /\ proc'[p].sent = 0
     /\ storage' # storage
       => \/ \E p \in Procs :
               /\ Steps(p)
               /\ \/ /\ proc[p].op \in {"handleCallback", "register"}
                     /\ proc[p].pc = "hc_response" /\ ~Failed(proc[p].resp)
                     /\ storage' # Null
                     /\ storage'.accessToken = proc[p].resp.body.o.access_token
                  \/ /\ proc[p].pc = "rt_response" /\ ~Failed(proc[p].resp)
                     /\ storage' # Null
                     /\ storage'.accessToken = proc[p].resp.body.o.access_token
                  \/ /\ proc[p].op = "logout" /\ proc'[p].pc = "lo_clear"
                     /\ storage' = Null
          \/ /\ writer.pc = "rt_response" /\ ~Failed(writer.resp) /\ writer' # writer
             /\ storage' # Null
             /\ storage'.accessToken = writer.resp.body.o.access_token]_vars

C21_Witness ==
  /\ storage # Null /\ storage # PersistedTokens
  /\ storage.accessToken = Str("a2") /\ storage.refreshToken = Str("r1")
  /\ storage.expiresAt = now + 120000
  /\ currentUser # Null
  /\ proc["c1"].op = "syncData" /\ proc["c1"].pc = "done"
  /\ proc["c1"].branch = "stale" /\ proc["c1"].result.kind = "return"

\* C22: logout() goes through its steps in order.  It awaits the flush first,
\* and only if data is pending; nothing is revoked or cleared before the flush
\* has settled.  It then reads the record: with a record the revoke request is
\* sent, carrying the access token of that record, and nothing is cleared before
\* it has settled; with no record no request is sent.  Then the store is
\* cleared, and after it the cached profile and the queue.
C22_LogoutOrder ==
  [][\A p \in Procs :
       (proc'[p].op = "logout" /\ Steps(p))
       => /\ proc[p].pc = "done"
               => /\ proc'[p].pc = IF syncManager /\ pending # NoData
                                     THEN "fl_wait" ELSE "lo_tokens"
                  /\ proc'[p].pc = "fl_wait" => InFlight_writer'
                  /\ proc'[p].pc = "lo_tokens"
                       => proc'[p].tokens = storage /\ pending' = pending
                  /\ proc'[p].flush = "" /\ proc'[p].revoke = "" /\ proc'[p].bearer = ""
                  /\ storage' = storage /\ currentUser' = currentUser
          /\ proc[p].pc = "fl_wait"
               => /\ proc'[p].pc = "lo_tokens" /\ FlushSettles
                  /\ proc'[p].flush \in {"return", "throw"}
                  /\ proc'[p].tokens = storage /\ proc'[p].bearer = ""
                  /\ storage' = storage /\ currentUser' = currentUser
          /\ proc[p].pc = "lo_tokens"
               => IF proc[p].tokens # Null
                    THEN /\ proc'[p].pc = "lo_fetch"
                         /\ proc'[p].bearer = proc[p].tokens.accessToken.s
                         /\ proc'[p].revoke = ""
                         /\ storage' = storage /\ currentUser' = currentUser
                         /\ pending' = pending
                  ELSE /\ proc'[p].pc = "lo_clear"
                       /\ proc'[p].bearer = "" /\ proc'[p].revoke = ""
                       /\ storage' = Null /\ currentUser' = currentUser
                       /\ pending' = pending
          /\ proc[p].pc = "lo_fetch"
               => /\ proc'[p].pc = "lo_clear"
                  /\ proc'[p].revoke \in {"return", "throw"}
                  /\ storage' = Null /\ currentUser' = currentUser /\ pending' = pending
          /\ proc[p].pc = "lo_clear"
               => /\ proc'[p].pc = "done"
                  /\ currentUser' = Null /\ pending' = NoData /\ timers' = 0]_vars

C22_Witness ==
  \E p \in Procs :
    /\ proc[p].op = "logout" /\ proc[p].pc = "lo_clear"
    /\ proc[p].flush = "throw" /\ proc[p].revoke = "throw" /\ proc[p].bearer = "a1"
    /\ storage = Null

\* what the claim C23 asks of one step of a call r that goes through
\* authenticatedRequest and is rn after the step
BearerRule(r, rn) ==
  /\ rn.bearer # "" => rn.pc \in {"sd_fetch", "sd_response"}
  /\ (rn.pc = "sd_fetch" /\ r.pc # "sd_fetch")
       => \/ /\ r.pc = "ga_tokens" /\ r.tokens # Null /\ ~IsStale(r.tokens, now)
             /\ rn.bearer = r.tokens.accessToken.s
          \/ /\ r.pc = "rt_response" /\ ~Failed(r.resp) /\ autoRefresh
             /\ rn.bearer = r.resp.body.o.access_token.s
             /\ storage' # Null /\ storage'.accessToken.s = rn.bearer
  /\ (r.pc = "ga_tokens" /\ r.tokens = Null) => rn.pc = "done"
  /\ (r.pc = "ga_tokens" /\ r.tokens # Null /\ IsStale(r.tokens, now))
       => rn.pc = IF autoRefresh THEN "rt_tokens" ELSE "done"
  /\ r.pc = "rt_tokens" => rn.pc = IF r.rtokens = Null THEN "done" ELSE "rt_fetch"
  /\ r.pc = "rt_fetch" => rn.pc = "rt_response"
  /\ (r.pc = "rt_response" /\ Failed(r.resp)) => rn.pc = "done"

\* C23: a request with an Authorization header (getUser, syncData, the write of
\* the sync manager) is sent only with the token getAccessToken() has answered:
\* the stored one when the record is fresh, the one of the refresh response when
\* the record was stale and the refresh succeeded; with no record the call fails
\* with InvalidTokenError, with a failed refresh with the error of the refresh,
\* and in both cases nothing is sent.
C23_BearerFromGetAccessToken ==
  [][/\ \A p \in Procs :
          (proc[p].op \in Authenticated /\ proc[p].pc # "done" /\ Steps(p))
          => /\ BearerRule(proc[p], proc'[p])
             /\ (proc[p].pc = "ga_tokens" /\ proc[p].tokens = Null)
                  => proc'[p].result = Throw("InvalidTokenError")
             /\ (proc[p].pc = "rt_tokens" /\ proc[p].rtokens = Null)
                  => proc'[p].result = Throw("InvalidTokenError")
             /\ (proc[p].pc = "rt_response" /\ Failed(proc[p].resp))
                  => proc'[p].result = Throw(ErrorOf(proc[p].resp))
     /\ (InFlight_writer /\ writer' # writer)
          => /\ BearerRule(writer, writer')
             /\ writer.op = "syncData"
             /\ WriteFailing => pending' # NoData]_vars

C23_Witness ==
  /\ proc["c1"].op = "getUser" /\ proc["c1"].pc = "sd_fetch"
  /\ proc["c1"].branch = "stale" /\ proc["c1"].bearer = "a2"
  /\ storage # Null /\ storage.accessToken = Str("a2")
  /\ proc["c2"].op = "syncData" /\ proc["c2"].pc = "sd_fetch"
  /\ proc["c2"].branch = "fresh" /\ proc["c2"].bearer = "a1"
  /\ InFlight_writer /\ writer.pc = "sd_response" /\ writer.bearer = "a2"

\* the digits of a header value that is a number of seconds
Seconds(v) == IF v = Chars(<<"3", "0">>) THEN 30 ELSE IF v = Chars(<<" ", "7">>) THEN 7 ELSE -1

\* C24: a failed request ends in the one typed error of its kind: NetworkError
\* when there is no response, InvalidTokenError for 401, ValidationError for
\* 400, RateLimitError for 429 and FunProfileError for any other status; the
\* RateLimitError carries the number of seconds of the Retry-After header, 60
\* when there is no such header, and in any case a number; the FunProfileError
\* carries the error code of the body when the body is JSON and has one.
C24_TypedFailure ==
  [][\A p \in Procs :
       (proc[p].pc = "hc_response" /\ Steps(p) /\ Failed(proc[p].resp))
       => LET f == proc[p].resp
              e == proc'[p].result
          IN /\ proc'[p].pc = "done" /\ e.kind = "throw"
             /\ e.err = ErrorOf(f)
             /\ (f.kind = "response" /\ f.status = 429)
                  => /\ e.retryAfter.t = "number"
                     /\ header(f, "Retry-After") = Null => e.retryAfter = Num(60)
                     /\ Seconds(header(f, "Retry-After")) >= 0
                          => e.retryAfter = Num(Seconds(header(f, "Retry-After")))
             /\ ( /\ e.err = "FunProfileError"
                  /\ header(f, "content-type") = Str("application/json")
                  /\ f.body.t = "object" /\ "error" \in DOMAIN f.body.o )
                  => e.code = f.body.o.error]_vars

\* C25: the user of the AuthResult of a successful handleCallback() or
\* register() is the profile of that token response, and so is the cached user
\* afterwards; when the response carries no profile, no profile of an earlier
\* authentication is returned or stays cached.
C25_UserOfThisSession ==
  [][\A p \in Procs :
       (proc[p].pc = "ht_set" /\ Steps(p))
       => LET response == proc[p].resp.body.o
              user == proc'[p].result.val.o.user
          IN /\ proc'[p].pc = "done" /\ proc'[p].result.kind = "return"
             /\ IF Truthy(response.user)
                  THEN /\ user = Obj(transformUser(response.user.o))
                       /\ currentUser' = user
                ELSE ~Truthy(user) /\ ~Truthy(currentUser')]_vars

TypeOK ==
  /\ autoRefresh \in BOOLEAN
  /\ now \in 0..(MaxTicks * TOKEN_REFRESH_BUFFER)
  /\ \A p \in Procs : proc[p].sent \in 0..1
  /\ DOMAIN pkce \subseteq issued
  /\ syncManager \in BOOLEAN
  /\ timers \in 0..1
  /\ InFlight_writer => payload # NoData

====
